---- MODULE Spec2Model ----
(***************************************************************************)
(* Model of the export job orchestrator of backend/main.py: the registry   *)
(* compose_jobs, the ComposeExportJob objects, the ordered frame buffer,   *)
(* the encoder subprocess of every job and the request handlers            *)
(* ffmpeg_export_compose / _frame / _audio / _finalize / _progress /       *)
(* _cancel and ffmpeg_export_direct.                                       *)
(*                                                                         *)
(* The handlers are asyncio coroutines on one event loop: the code between *)
(* two awaits is one atomic action, and every await at which a handler can *)
(* be suspended is a position recorded in pc.  job.lock is a               *)
(* threading.Lock: acquiring it while a suspended coroutine holds it       *)
(* blocks the only thread of the event loop (loop_blocked).                *)
(***************************************************************************)
EXTENDS Integers, Sequences, FiniteSets, TLC

VARIABLES
    jobs,          \* the ComposeExportJob objects ever constructed, by job id
    compose_jobs,  \* the keys of the registry dict compose_jobs
    files,         \* the artifacts on disk: <<job id, kind>> |-> content
    pc,            \* per job: where its suspended coroutines are
    now,           \* time.time()
    loop_blocked,  \* the event loop thread is stuck in lock.acquire()
    ghost,         \* per job, history and not program state: sent, the payload last
                   \* accepted for every index; ok and err, the submitFrame calls
                   \* that returned success, or an error after validation; ooo, a
                   \* frame was accepted ahead of next_frame_to_write; cancelled,
                   \* a cancel call has returned success; lines, track_progress
                   \* has parsed a line of the encoder; inside, the executions
                   \* now between acquiring and releasing job.lock; call, while
                   \* a submitFrame call is suspended: next_frame_to_write, the
                   \* buffer (new frame included) and the encoder input as they
                   \* were when the call entered its critical section;
                   \* finalized, the finalize calls that passed the status
                   \* check, and closes, the calls of stdin.close(), both
                   \* counted up to 2
    last           \* the last request served and its outcome (not program state)

vars == <<jobs, compose_jobs, files, pc, now, loop_blocked, ghost, last>>

----------------------------------------------------------------------------
(* Bounds of the model *)

MaxFrames == 2      \* totalFrames of a created job; frame indices range over 0..MaxFrames
MaxCalls == 3       \* submitFrame calls per job that pass validation
FrameWidth == 1     \* width of a created job
FrameHeight == 1    \* height of a created job

(* Program constants *)

BytesPerPixel == 4
COMPOSE_JOB_MAX_AGE == 3600

JobIds == {1}
RegistryJobIds == {1, 2}
Payloads == {"a", "b"}
FrameIndices == 0..MaxFrames
Terminal == {"done", "error", "cancelled"}

NoHistory ==
    [sent |-> [i \in {} |-> "a"], ok |-> 0, err |-> 0, ooo |-> FALSE, cancelled |-> FALSE,
     lines |-> FALSE, inside |-> 0, call |-> [active |-> FALSE],
     finalized |-> 0, closes |-> 0]

NoProcess ==
    [obj |-> FALSE, stdin |-> "none", exited |-> FALSE, returncode |-> 0,
     terminated |-> 0, input |-> <<>>]

----------------------------------------------------------------------------
(* Inputs of submitFrame: the "data" field of the request body *)

ExpectedSize(job) == job.width * job.height * BytesPerPixel

FrameData(tags) ==
    { [b64 |-> "missing", len |-> 0, tag |-> "a"],
      [b64 |-> "invalid", len |-> 0, tag |-> "a"],
      [b64 |-> "valid", len |-> FrameWidth * FrameHeight * BytesPerPixel - 1, tag |-> "a"],
      [b64 |-> "valid", len |-> FrameWidth * FrameHeight * BytesPerPixel + 1, tag |-> "a"] }
    \cup [b64 : {"valid"}, len : {FrameWidth * FrameHeight * BytesPerPixel}, tag : tags]

----------------------------------------------------------------------------
(* Pure helpers *)

SetJob(j, job) == [jobs EXCEPT ![j] = job]

SetPc(j, field, val) == [pc EXCEPT ![j][field] = val]

Store(buf, idx, data) ==
    [i \in DOMAIN buf \cup {idx} |-> IF i = idx THEN data ELSE buf[i]]

Pop(buf, idx) == [i \in DOMAIN buf \ {idx} |-> buf[i]]

\* process.stdin.write(data): the transport drops data silently once the pipe
\* is closing or the connection is lost
PipeAlive(p) == p.obj /\ p.stdin = "pipe" /\ ~p.exited

StdinWrite(p, idx, data) ==
    IF PipeAlive(p)
    THEN [p EXCEPT !.input = Append(@, [idx |-> idx, data |-> data])]
    ELSE p

\* process.terminate(); the counter saturates at 2
Terminate(p) == [p EXCEPT !.terminated = IF @ < 2 THEN @ + 1 ELSE @]

\* the disk: os.path.exists, os.unlink and writing a file
Exists(fs, path) == path \in DOMAIN fs

Unlink(fs, paths) == [p \in DOMAIN fs \ paths |-> fs[p]]

WriteFile(fs, path, content) ==
    [p \in DOMAIN fs \cup {path} |-> IF p = path THEN content ELSE fs[p]]

cleanup_job_files(fs, j, job) ==
    Unlink(fs, {<<j, "output">>} \cup (IF job.audio_path THEN {<<j, "audio">>} ELSE {}))

\* Expired removing a job at the very end of the window
ExpiredAtWindow(j) == now - jobs[j].created_at >= COMPOSE_JOB_MAX_AGE

\* now - job.created_at > COMPOSE_JOB_MAX_AGE
Expired(j) == now - jobs[j].created_at > COMPOSE_JOB_MAX_AGE

\* Stale without the test of the status
StaleAnyStatus(j) == Expired(j)

Stale(j) ==
    /\ Expired(j)
    /\ jobs[j].status \in {"done", "error", "cancelled"}

StaleJobs == { j \in compose_jobs : Stale(j) }

RECURSIVE CleanupFiles(_, _)
CleanupFiles(fs, stale) ==
    IF stale = {} THEN fs
    ELSE LET j == CHOOSE x \in stale : TRUE
         IN CleanupFiles(cleanup_job_files(fs, j, jobs[j]), stale \ {j})

\* the registry and the disk after _cleanup_old_jobs()
cleanup_old_jobs_registry == compose_jobs \ StaleJobs

cleanup_old_jobs_files == CleanupFiles(files, StaleJobs)

----------------------------------------------------------------------------
Init ==
    /\ jobs = [j \in {} |-> NoProcess]
    /\ compose_jobs = {}
    /\ files = [p \in {} |-> ""]
    /\ pc = [j \in {} |-> NoProcess]
    /\ now = 0
    /\ loop_blocked = FALSE
    /\ ghost = [j \in {} |-> NoProcess]
    /\ last = [op |-> "none", job |-> 0, result |-> "none"]

NewJob(total, process) ==
    [width |-> FrameWidth, height |-> FrameHeight, total_frames |-> total,
     audio_path |-> FALSE, process |-> process, frames_received |-> 0,
     status |-> "encoding", error |-> "", created_at |-> now,
     frame_buffer |-> [i \in {} |-> "a"], next_frame_to_write |-> 0,
     lock |-> "free", encoder_fps |-> 0]

Extend(f, j, v) == [x \in DOMAIN f \cup {j} |-> IF x = j THEN v ELSE f[x]]

\* TotalFramesInvalid letting zero pass
TotalFramesInvalidBelowZero(total) == total < 0

\* if total_frames <= 0
TotalFramesInvalid(total) == total <= 0

\* POST /ffmpeg/export-compose
ffmpeg_export_compose(j, total, spawn_ok) ==
    /\ ~loop_blocked
    /\ (~TotalFramesInvalid(total) /\ spawn_ok) => j \notin DOMAIN jobs
    /\ files' = cleanup_old_jobs_files
    /\ IF TotalFramesInvalid(total) \/ ~spawn_ok
       THEN /\ compose_jobs' = cleanup_old_jobs_registry
            /\ last' = [op |-> "create", job |-> 0,
                        result |-> IF TotalFramesInvalid(total)
                                   THEN "totalFrames must be > 0"
                                   ELSE "Failed to start FFmpeg"]
            /\ UNCHANGED <<jobs, pc, ghost>>
       ELSE /\ jobs' = Extend(jobs, j,
                  NewJob(total, [NoProcess EXCEPT !.obj = TRUE, !.stdin = "pipe"]))
            /\ compose_jobs' = cleanup_old_jobs_registry \cup {j}
            /\ pc' = Extend(pc, j, [frame |-> "idle", fin |-> "idle",
                                    direct |-> "none", reader |-> "reading",
                                    mux |-> "none"])
            /\ ghost' = Extend(ghost, j, NoHistory)
            /\ last' = [op |-> "create", job |-> j, result |-> "ok"]
    /\ UNCHANGED <<now, loop_blocked>>

----------------------------------------------------------------------------
(* POST /ffmpeg/export-frame *)

\* FrameCheck without the comparison of the payload length
FrameCheckNoSize(j, d) ==
    IF j \notin compose_jobs THEN "Invalid jobId"
    ELSE IF jobs[j].status # "encoding" THEN "Job not accepting frames"
    ELSE IF d.b64 = "missing" THEN "Missing frame data"
    ELSE IF ~jobs[j].process.obj \/ jobs[j].process.stdin = "none"
         THEN "FFmpeg process not available"
    ELSE IF d.b64 = "invalid" THEN "Invalid base64 data"
    ELSE "ok"

\* the checks before the critical section, in the order of the code
FrameCheck(j, d) ==
    IF j \notin compose_jobs THEN "Invalid jobId"
    ELSE IF jobs[j].status # "encoding" THEN "Job not accepting frames"
    ELSE IF d.b64 = "missing" THEN "Missing frame data"
    ELSE IF ~jobs[j].process.obj \/ jobs[j].process.stdin = "none"
         THEN "FFmpeg process not available"
    ELSE IF d.b64 = "invalid" THEN "Invalid base64 data"
    ELSE IF d.len # ExpectedSize(jobs[j]) THEN "Frame data size mismatch"
    ELSE "ok"

\* job.frame_buffer[frame_index] = frame_data; job.frames_received += 1
BufferFrame(job, idx, data) ==
    [job EXCEPT !.frame_buffer = Store(@, idx, data),
                !.frames_received = @ + 1]

\* DrainPop taking the first key of the buffer instead of next_frame_to_write
DrainPopFirstKey(job) ==
    LET k == CHOOSE x \in DOMAIN job.frame_buffer :
                 \A y \in DOMAIN job.frame_buffer : x <= y
    IN [job EXCEPT !.frame_buffer = Pop(@, k),
                   !.process = StdinWrite(@, k, job.frame_buffer[k])]

\* one turn of "while job.next_frame_to_write in job.frame_buffer" up to the
\* await of drain(): pop the frame and hand it to stdin.write
DrainPop(job) ==
    [job EXCEPT !.frame_buffer = Pop(@, job.next_frame_to_write),
                !.process = StdinWrite(@, job.next_frame_to_write,
                                       job.frame_buffer[job.next_frame_to_write])]

\* Advance without the increment
AdvanceStuck(job) == job

\* job.next_frame_to_write += 1
Advance(job) == [job EXCEPT !.next_frame_to_write = @ + 1]

\* NextIsBuffered finding nothing to write
NextIsBufferedNever(job) == FALSE

\* while job.next_frame_to_write in job.frame_buffer
NextIsBuffered(job) == job.next_frame_to_write \in DOMAIN job.frame_buffer

\* WriteFailed recording nothing
WriteFailedSwallowed(job) == [job EXCEPT !.lock = "free"]

\* except Exception: job.status = "error"; job.error = ...; return (the return
\* leaves the with block and releases job.lock)
WriteFailed(job) == [job EXCEPT !.status = "error", !.error = "write", !.lock = "free"]

\* LockHeld seeing the lock free at all times
LockHeldNever(job) == FALSE

\* "with job.lock" finds the lock taken: job.lock is a threading.Lock, and its
\* holder is a coroutine suspended at its await
LockHeld(job) == job.lock = "held"

\* the handler from the top of the while loop to its next await or its return
DrainFrom(j, job, g) ==
    IF NextIsBuffered(job)
    THEN /\ jobs' = SetJob(j, [DrainPop(job) EXCEPT !.lock = "held"])
         /\ pc' = SetPc(j, "frame",
                        IF PipeAlive(job.process) THEN "drain" ELSE "drain_lost")
         /\ ghost' = g
         /\ last' = [op |-> "frame", job |-> j, result |-> "suspended"]
    ELSE /\ jobs' = SetJob(j, [job EXCEPT !.lock = "free"])
         /\ pc' = SetPc(j, "frame", "idle")
         /\ ghost' = [g EXCEPT ![j].ok = @ + 1, ![j].inside = @ - 1,
                               ![j].call = [active |-> FALSE]]
         /\ last' = [op |-> "frame", job |-> j, result |-> "ok"]

\* what a submitFrame call finds when it has stored its frame
CallEntry(job, idx, data) ==
    [active |-> TRUE, next |-> job.next_frame_to_write,
     buffer |-> Store(job.frame_buffer, idx, data), written |-> job.process.input]

ffmpeg_export_frame(j, idx, d) ==
    /\ ~loop_blocked
    /\ IF FrameCheck(j, d) # "ok"
       THEN /\ last' = [op |-> "frame", job |-> j, result |-> FrameCheck(j, d)]
            /\ UNCHANGED <<jobs, pc, ghost, loop_blocked>>
       ELSE IF LockHeld(jobs[j])
       THEN \* "with job.lock" never returns: the holder needs this thread to resume
            /\ loop_blocked' = TRUE
            /\ last' = [op |-> "frame", job |-> j, result |-> "blocked"]
            /\ UNCHANGED <<jobs, pc, ghost>>
       ELSE /\ jobs[j].frames_received < MaxCalls
            /\ DrainFrom(j, BufferFrame(jobs[j], idx, d.tag),
                         [ghost EXCEPT ![j].sent = Store(@, idx, d.tag),
                                       ![j].ooo = @ \/ idx > jobs[j].next_frame_to_write,
                                       ![j].inside = @ + 1,
                                       ![j].call = CallEntry(jobs[j], idx, d.tag)])
            /\ UNCHANGED loop_blocked
    /\ UNCHANGED <<compose_jobs, files, now>>

\* the handler resumes from "await job.process.stdin.drain()"
FrameResume(j, raise) ==
    /\ ~loop_blocked
    /\ j \in DOMAIN jobs
    /\ pc[j].frame \in {"drain", "drain_lost"}
    /\ pc[j].frame = "drain_lost" => raise
    /\ raise => ~PipeAlive(jobs[j].process)
    /\ IF raise
       THEN /\ jobs' = SetJob(j, WriteFailed(jobs[j]))
            /\ pc' = SetPc(j, "frame", "idle")
            /\ ghost' = [ghost EXCEPT ![j].err = @ + 1, ![j].inside = @ - 1,
                                      ![j].call = [active |-> FALSE]]
            /\ last' = [op |-> "frame", job |-> j, result |-> "error"]
       ELSE DrainFrom(j, Advance(jobs[j]), ghost)
    /\ UNCHANGED <<compose_jobs, files, now, loop_blocked>>

----------------------------------------------------------------------------
(* POST /ffmpeg/export-audio *)

ffmpeg_export_audio(j) ==
    /\ ~loop_blocked
    /\ IF j \notin compose_jobs
       THEN /\ last' = [op |-> "audio", job |-> j, result |-> "rejected"]
            /\ UNCHANGED <<jobs, files>>
       ELSE /\ files' = WriteFile(files, <<j, "audio">>, "audio")
            /\ jobs' = SetJob(j, [jobs[j] EXCEPT !.audio_path = TRUE])
            /\ last' = [op |-> "audio", job |-> j, result |-> "ok"]
    /\ UNCHANGED <<compose_jobs, pc, now, loop_blocked, ghost>>

----------------------------------------------------------------------------
(* POST /ffmpeg/export-finalize *)

\* "while job.next_frame_to_write in job.frame_buffer" of finalize: no await,
\* write errors swallowed, the counter advances whatever the write did
RECURSIVE FlushLoop(_)
FlushLoop(job) ==
    IF NextIsBuffered(job)
    THEN FlushLoop(Advance(DrainPop(job)))
    ELSE job

\* CloseStdin leaving the stream open
CloseStdinNever(p) == p

\* job.process.stdin.close()
CloseStdin(p) == IF p.obj /\ p.stdin = "pipe" THEN [p EXCEPT !.stdin = "closed"] ELSE p

\* MoveVideo leaving both paths as they are
MoveVideoKeeps(fs, j) == fs

\* shutil.move(video_only_path, job.output_path) if the video-only file exists
MoveVideo(fs, j) ==
    IF Exists(fs, <<j, "video">>)
    THEN Unlink(WriteFile(fs, <<j, "output">>, fs[<<j, "video">>]), {<<j, "video">>})
    ELSE fs

\* FinalizeCheck rejecting the terminal statuses only
FinalizeCheckTerminalOnly(j) ==
    IF j \notin compose_jobs THEN "Invalid jobId"
    ELSE IF jobs[j].status \in {"done", "error", "cancelled"} THEN "Job not in encoding state"
    ELSE "ok"

\* the checks at the start of finalize
FinalizeCheck(j) ==
    IF j \notin compose_jobs THEN "Invalid jobId"
    ELSE IF jobs[j].status # "encoding" THEN "Job not in encoding state"
    ELSE "ok"

\* EncoderFailed testing the return code against None instead of 0
EncoderFailedIsNone(p) == ~p.exited

\* if job.process.returncode != 0
EncoderFailed(p) == p.returncode # 0

\* "if job.process and job.process.stdin" before stdin.close(): a closed
\* stream is still an object
CloseCalled(p) == p.obj /\ p.stdin # "none"

UpTo2(n) == IF n < 2 THEN n + 1 ELSE n

\* from the start of the handler to "await ... job.process.communicate()"
ffmpeg_export_finalize(j) ==
    /\ ~loop_blocked
    /\ IF FinalizeCheck(j) # "ok"
       THEN /\ last' = [op |-> "finalize", job |-> j, result |-> FinalizeCheck(j)]
            /\ UNCHANGED <<jobs, pc, loop_blocked, ghost>>
       ELSE IF LockHeld(jobs[j])
       THEN /\ jobs' = SetJob(j, [jobs[j] EXCEPT !.status = "finalizing"])
            /\ loop_blocked' = TRUE
            /\ ghost' = [ghost EXCEPT ![j].finalized = UpTo2(@)]
            /\ last' = [op |-> "finalize", job |-> j, result |-> "blocked"]
            /\ UNCHANGED pc
       ELSE LET flushed == FlushLoop([jobs[j] EXCEPT !.status = "finalizing"])
            IN /\ jobs' = SetJob(j, [flushed EXCEPT !.process = CloseStdin(@)])
               /\ ghost' = [ghost EXCEPT
                               ![j].finalized = UpTo2(@),
                               ![j].closes = IF CloseCalled(jobs[j].process)
                                             THEN UpTo2(@) ELSE @]
               /\ IF jobs[j].process.obj
                  THEN /\ pc' = SetPc(j, "fin", "wait")
                       /\ last' = [op |-> "finalize", job |-> j, result |-> "suspended"]
                  ELSE \* job.process is None: AttributeError leaves the handler
                       /\ pc' = pc
                       /\ last' = [op |-> "finalize", job |-> j, result |-> "raised"]
               /\ UNCHANGED loop_blocked
    /\ UNCHANGED <<compose_jobs, files, now>>

\* the handler resumes from the bounded wait for the encoder
FinalizeResume(j, outcome) ==
    /\ ~loop_blocked
    /\ j \in DOMAIN jobs
    /\ pc[j].fin = "wait"
    /\ CASE outcome = "exit" ->
              /\ jobs[j].process.exited
              /\ IF EncoderFailed(jobs[j].process)
                 THEN /\ jobs' = SetJob(j, [jobs[j] EXCEPT !.status = "error",
                                                          !.error = "exit"])
                      /\ pc' = SetPc(j, "fin", "idle")
                      /\ files' = files
                      /\ last' = [op |-> "finalize", job |-> j, result |-> "error"]
                 ELSE IF jobs[j].audio_path /\ Exists(files, <<j, "audio">>)
                 THEN /\ pc' = SetPc(j, "fin", "mux")
                      /\ last' = [op |-> "finalize", job |-> j, result |-> "suspended"]
                      /\ UNCHANGED <<jobs, files>>
                 ELSE /\ files' = MoveVideo(files, j)
                      /\ jobs' = SetJob(j, [jobs[j] EXCEPT !.status = "done"])
                      /\ pc' = SetPc(j, "fin", "idle")
                      /\ last' = [op |-> "finalize", job |-> j, result |-> "ok"]
         [] outcome = "timeout" ->
              /\ ~jobs[j].process.exited
              /\ jobs' = SetJob(j, [jobs[j] EXCEPT !.process = Terminate(@),
                                                   !.status = "error",
                                                   !.error = "timeout"])
              /\ pc' = SetPc(j, "fin", "idle")
              /\ files' = files
              /\ last' = [op |-> "finalize", job |-> j, result |-> "error"]
         [] outcome = "raise" ->
              \* communicate() reads stdout while the progress reader of the job
              \* (or track_progress of a direct export) waits on it
              /\ pc[j].reader = "reading" \/ pc[j].direct = "track"
              /\ pc' = SetPc(j, "fin", "idle")
              /\ last' = [op |-> "finalize", job |-> j, result |-> "raised"]
              /\ UNCHANGED <<jobs, files>>
    /\ UNCHANGED <<compose_jobs, now, loop_blocked, ghost>>

\* MuxCleanup leaving the video-only file in place
MuxCleanupKeeps(fs, j) == fs

\* after a successful mux: os.unlink(video_only_path) if the file exists
MuxCleanup(fs, j) ==
    IF Exists(fs, <<j, "video">>) THEN Unlink(fs, {<<j, "video">>}) ELSE fs

\* the handler resumes from "await create_subprocess_exec" of the mux process
\* or from the bounded wait for it; pc[j].mux is the local mux_process.
\* "spawn": create_subprocess_exec raises; "timeout": wait_for raises
\* TimeoutError; neither is inside a try block.  "fail_partial": the mux
\* process exits non-zero and leaves an incomplete output file behind.
FinalizeMux(j, outcome) ==
    /\ ~loop_blocked
    /\ j \in DOMAIN jobs
    /\ pc[j].fin = "mux"
    /\ CASE outcome = "ok" ->
              /\ Exists(files, <<j, "video">>)
              /\ files' = MuxCleanup(WriteFile(files, <<j, "output">>, "muxed"), j)
              /\ jobs' = SetJob(j, [jobs[j] EXCEPT !.status = "done"])
              /\ pc' = [pc EXCEPT ![j].fin = "idle", ![j].mux = "exited"]
              /\ last' = [op |-> "finalize", job |-> j, result |-> "ok"]
         [] outcome \in {"fail", "fail_partial"} ->
              /\ files' = MoveVideo(IF outcome = "fail_partial"
                                    THEN WriteFile(files, <<j, "output">>, "partial")
                                    ELSE files, j)
              /\ jobs' = SetJob(j, [jobs[j] EXCEPT !.status = "done"])
              /\ pc' = [pc EXCEPT ![j].fin = "idle", ![j].mux = "exited"]
              /\ last' = [op |-> "finalize", job |-> j, result |-> "ok"]
         [] outcome = "timeout" ->
              /\ pc' = [pc EXCEPT ![j].fin = "idle", ![j].mux = "running"]
              /\ last' = [op |-> "finalize", job |-> j, result |-> "raised"]
              /\ UNCHANGED <<jobs, files>>
         [] outcome = "spawn" ->
              /\ pc' = [pc EXCEPT ![j].fin = "idle"]
              /\ last' = [op |-> "finalize", job |-> j, result |-> "raised"]
              /\ UNCHANGED <<jobs, files>>
    /\ UNCHANGED <<compose_jobs, now, loop_blocked, ghost>>

----------------------------------------------------------------------------
(* GET /ffmpeg/export-progress and POST /ffmpeg/export-cancel *)

\* Progress without the clamp at 1.0
ProgressUnclamped(job) ==
    IF job.total_frames > 0
    THEN [num |-> job.frames_received, den |-> job.total_frames]
    ELSE [num |-> 0, den |-> 1]

\* min(job.frames_received / job.total_frames, 1.0) if total_frames > 0, else
\* 0.0; the fraction num / den with den > 0
Progress(job) ==
    IF job.total_frames > 0
    THEN [num |-> IF job.frames_received < job.total_frames
                  THEN job.frames_received ELSE job.total_frames,
          den |-> job.total_frames]
    ELSE [num |-> 0, den |-> 1]

ffmpeg_export_progress(j) ==
    /\ ~loop_blocked
    /\ last' = IF j \in compose_jobs
               THEN [op |-> "progress", job |-> j, result |-> "ok",
                     progress |-> Progress(jobs[j])]
               ELSE [op |-> "progress", job |-> j, result |-> "rejected"]
    /\ UNCHANGED <<jobs, compose_jobs, files, pc, now, loop_blocked, ghost>>

\* CancelProcess leaving the encoder alone
CancelProcessNever(p) == p

\* if job.process and job.process.returncode is None: job.process.terminate()
CancelProcess(p) == IF p.obj /\ ~p.exited THEN Terminate(p) ELSE p

\* CancelKeepsEntry popping the job from the registry
CancelPopsEntry(j) == compose_jobs \ {j}

\* the registry after cancel: the handler neither pops nor deletes the entry
CancelKeepsEntry(j) == compose_jobs

ffmpeg_export_cancel(j) ==
    /\ ~loop_blocked
    /\ IF j \notin compose_jobs
       THEN /\ last' = [op |-> "cancel", job |-> j, result |-> "rejected"]
            /\ UNCHANGED <<jobs, compose_jobs, files, ghost>>
       ELSE /\ jobs' = SetJob(j,
                  [jobs[j] EXCEPT !.process = CancelProcess(@),
                                  !.status = "cancelled"])
            /\ files' = cleanup_job_files(files, j, jobs[j])
            /\ compose_jobs' = CancelKeepsEntry(j)
            /\ ghost' = [ghost EXCEPT ![j].cancelled = TRUE]
            /\ last' = [op |-> "cancel", job |-> j, result |-> "ok"]
    /\ UNCHANGED <<pc, now, loop_blocked>>

\* GET /ffmpeg/export-download: the checks, then the file is served
ffmpeg_export_download(j) ==
    /\ ~loop_blocked
    /\ last' = [op |-> "download", job |-> j,
                result |-> IF j \notin compose_jobs THEN "Invalid jobId"
                           ELSE IF jobs[j].status # "done" THEN "Export not complete"
                           ELSE IF ~Exists(files, <<j, "output">>)
                                THEN "Output file not found"
                           ELSE "ok"]
    /\ UNCHANGED <<jobs, compose_jobs, files, pc, now, loop_blocked, ghost>>

----------------------------------------------------------------------------
(* The progress reader task _read_compose_progress *)

\* The lines of the encoder's stdout, by their fps field: "absent", no "fps="
\* in the line; "empty", "fps=" with nothing after it; "word", a token that is
\* no number; "nan", the token nan; "bytes", a value holding bytes that are not
\* UTF-8; "24" and "30", decimal numbers
FpsFields == {"absent", "empty", "word", "nan", "bytes", "24", "30"}

NaN == -1

\* line.decode() raises UnicodeDecodeError unless the line is UTF-8
Decodes(field) == field # "bytes"

\* "fps=" in text
HasFps(field) == field # "absent"

\* text.split("fps=")[1].strip().split()[0] raises IndexError when no token
\* follows
HasToken(field) == field # "empty"

\* float(fps_str) raises ValueError on a token that is no float literal; nan
\* is one
FloatParses(field) == field \in {"nan", "24", "30"}

Float(field) == IF field = "24" THEN 24 ELSE IF field = "30" THEN 30 ELSE NaN

\* one turn of the loop of _read_compose_progress on a line that is not empty:
\* the inner try swallows ValueError and IndexError of the parse; the decode is
\* outside of it, and the outer "except Exception: pass" ends the task
ReaderLine(j, field) ==
    /\ ~loop_blocked
    /\ j \in DOMAIN jobs
    /\ pc[j].reader = "reading"
    /\ ~jobs[j].process.exited
    /\ IF ~Decodes(field)
       THEN /\ pc' = SetPc(j, "reader", "done")
            /\ jobs' = jobs
       ELSE /\ pc' = pc
            /\ jobs' = IF HasFps(field) /\ HasToken(field) /\ FloatParses(field)
                       THEN SetJob(j, [jobs[j] EXCEPT !.encoder_fps = Float(field)])
                       ELSE jobs
    /\ UNCHANGED <<compose_jobs, files, now, loop_blocked, ghost, last>>

\* readline() returns b"" once the encoder has closed its stdout
ReaderEOF(j) ==
    /\ ~loop_blocked
    /\ j \in DOMAIN jobs
    /\ pc[j].reader = "reading"
    /\ jobs[j].process.exited
    /\ pc' = SetPc(j, "reader", "done")
    /\ UNCHANGED <<jobs, compose_jobs, files, now, loop_blocked, ghost, last>>

\* readline() raises because communicate() of finalize already waits on stdout
ReaderCollide(j) ==
    /\ ~loop_blocked
    /\ j \in DOMAIN jobs
    /\ pc[j].reader = "reading"
    /\ pc[j].fin = "wait"
    /\ pc' = SetPc(j, "reader", "done")
    /\ UNCHANGED <<jobs, compose_jobs, files, now, loop_blocked, ghost, last>>

----------------------------------------------------------------------------
(* POST /ffmpeg/export-direct *)

\* from the start of the handler to "await asyncio.create_subprocess_exec"
ffmpeg_export_direct(j, total, valid) ==
    /\ ~loop_blocked
    /\ valid => j \notin DOMAIN jobs
    /\ files' = cleanup_old_jobs_files
    /\ IF ~valid
       THEN /\ compose_jobs' = cleanup_old_jobs_registry
            /\ last' = [op |-> "direct", job |-> 0, result |-> "rejected"]
            /\ UNCHANGED <<jobs, pc, ghost>>
       ELSE /\ jobs' = Extend(jobs, j, NewJob(total, NoProcess))
            /\ compose_jobs' = cleanup_old_jobs_registry \cup {j}
            /\ pc' = Extend(pc, j, [frame |-> "idle", fin |-> "idle",
                                    direct |-> "spawn", reader |-> "none",
                                    mux |-> "none"])
            /\ ghost' = Extend(ghost, j, NoHistory)
            /\ last' = [op |-> "direct", job |-> j, result |-> "suspended"]
    /\ UNCHANGED <<now, loop_blocked>>

\* create_subprocess_exec returns or raises
DirectSpawn(j, spawn_ok) ==
    /\ ~loop_blocked
    /\ j \in DOMAIN jobs
    /\ pc[j].direct = "spawn"
    /\ IF spawn_ok
       THEN /\ jobs' = SetJob(j, [jobs[j] EXCEPT !.process = [NoProcess EXCEPT !.obj = TRUE]])
            /\ pc' = SetPc(j, "direct", "track")
            /\ last' = [op |-> "direct", job |-> j, result |-> "suspended"]
       ELSE /\ jobs' = SetJob(j, [jobs[j] EXCEPT !.status = "error", !.error = "spawn"])
            /\ pc' = SetPc(j, "direct", "end")
            /\ last' = [op |-> "direct", job |-> j, result |-> "error"]
    /\ UNCHANGED <<compose_jobs, files, now, loop_blocked, ghost>>

\* track_progress parses an out_time_ms line and stores
\* int(progress_tracker.progress * job.total_frames), where progress is
\* min(time_ms / (total_duration * 1000000), 1.0): at most total_frames, and
\* negative when the encoder reports a negative time, as it does before its
\* first packet (out_time_ms=-9223372036854775807).  The encoder's time never
\* decreases from one line to the next.
DirectLine(j, received) ==
    /\ ~loop_blocked
    /\ j \in DOMAIN jobs
    /\ pc[j].direct = "track"
    /\ ~jobs[j].process.exited
    /\ received \in (-1)..jobs[j].total_frames
    /\ ghost[j].lines => received >= jobs[j].frames_received
    /\ jobs' = SetJob(j, [jobs[j] EXCEPT !.frames_received = received])
    /\ ghost' = [ghost EXCEPT ![j].lines = TRUE]
    /\ UNCHANGED <<compose_jobs, files, pc, now, loop_blocked, last>>

\* track_progress ends, process.wait() returns; or wait_for times out
DirectFinish(j, outcome) ==
    /\ ~loop_blocked
    /\ j \in DOMAIN jobs
    /\ pc[j].direct = "track"
    /\ CASE outcome = "exit" ->
              /\ jobs[j].process.exited
              /\ IF jobs[j].process.returncode # 0
                 THEN /\ jobs' = SetJob(j, [jobs[j] EXCEPT !.status = "error",
                                                          !.error = "exit"])
                      /\ last' = [op |-> "direct", job |-> j, result |-> "error"]
                 ELSE /\ jobs' = SetJob(j, [jobs[j] EXCEPT !.status = "done",
                                                          !.frames_received = jobs[j].total_frames])
                      /\ last' = [op |-> "direct", job |-> j, result |-> "ok"]
         [] outcome = "timeout" ->
              /\ ~jobs[j].process.exited
              /\ jobs' = SetJob(j, [jobs[j] EXCEPT !.process = Terminate(@),
                                                   !.status = "error",
                                                   !.error = "timeout"])
              /\ last' = [op |-> "direct", job |-> j, result |-> "error"]
    /\ pc' = SetPc(j, "direct", "end")
    /\ UNCHANGED <<compose_jobs, files, now, loop_blocked, ghost>>

----------------------------------------------------------------------------
(* The environment: the encoder process and the clock *)

\* the encoder exits; it exits with 0 only after the end of its input, and
\* then its output file is on disk unless wrote is FALSE (the handlers test
\* os.path.exists before every use of the file)
ProcExit(j, code, wrote) ==
    /\ j \in DOMAIN jobs
    /\ jobs[j].process.obj
    /\ ~jobs[j].process.exited
    /\ code = 0 => jobs[j].process.stdin # "pipe"
    /\ code # 0 => ~wrote
    /\ jobs' = SetJob(j, [jobs[j] EXCEPT !.process.exited = TRUE,
                                         !.process.returncode = code])
    /\ files' = IF wrote
                THEN WriteFile(files, <<j, IF pc[j].direct = "none" THEN "video" ELSE "output">>,
                               "encoded")
                ELSE files
    /\ UNCHANGED <<compose_jobs, pc, now, loop_blocked, ghost, last>>

\* the clock reaches the end of the retention window, then passes it
Tick ==
    /\ now <= COMPOSE_JOB_MAX_AGE
    /\ now' = IF now < COMPOSE_JOB_MAX_AGE THEN COMPOSE_JOB_MAX_AGE ELSE now + 1
    /\ UNCHANGED <<jobs, compose_jobs, files, pc, loop_blocked, ghost, last>>

----------------------------------------------------------------------------
\* one job, one payload value, the whole life cycle
Next ==
    \/ \E j \in JobIds, total \in {-1, 0, MaxFrames}, ok \in BOOLEAN :
          ffmpeg_export_compose(j, total, ok)
    \/ \E j \in JobIds, idx \in FrameIndices, d \in FrameData({"a"}) :
          ffmpeg_export_frame(j, idx, d)
    \/ \E j \in JobIds, raise \in BOOLEAN : FrameResume(j, raise)
    \/ \E j \in JobIds : ffmpeg_export_audio(j)
    \/ \E j \in JobIds : ffmpeg_export_finalize(j)
    \/ \E j \in JobIds, o \in {"exit", "timeout", "raise"} : FinalizeResume(j, o)
    \/ \E j \in JobIds, o \in {"ok", "fail", "fail_partial", "timeout", "spawn"} :
          FinalizeMux(j, o)
    \/ \E j \in JobIds : ffmpeg_export_progress(j)
    \/ \E j \in JobIds : ffmpeg_export_cancel(j)
    \/ \E j \in JobIds : ReaderEOF(j)
    \/ \E j \in JobIds : ReaderCollide(j)
    \/ \E j \in JobIds, total \in {0, MaxFrames}, valid \in BOOLEAN :
          ffmpeg_export_direct(j, total, valid)
    \/ \E j \in JobIds, ok \in BOOLEAN : DirectSpawn(j, ok)
    \/ \E j \in JobIds, r \in (-1)..MaxFrames : DirectLine(j, r)
    \/ \E j \in JobIds, o \in {"exit", "timeout"} : DirectFinish(j, o)
    \/ \E j \in JobIds, code \in {0, 1}, wrote \in BOOLEAN :
          ProcExit(j, code, wrote)

Spec == Init /\ [][Next]_vars

\* one frame-streaming job, two payload values: the frame path with finalize,
\* cancel and the encoder's exit
NextFrames ==
    \/ \E j \in JobIds : ffmpeg_export_compose(j, MaxFrames, TRUE)
    \/ \E j \in JobIds, idx \in FrameIndices, d \in FrameData(Payloads) :
          ffmpeg_export_frame(j, idx, d)
    \/ \E j \in JobIds, raise \in BOOLEAN : FrameResume(j, raise)
    \/ \E j \in JobIds : ffmpeg_export_finalize(j)
    \/ \E j \in JobIds, o \in {"exit", "timeout", "raise"} : FinalizeResume(j, o)
    \/ \E j \in JobIds : ffmpeg_export_cancel(j)
    \/ \E j \in JobIds, code \in {0, 1}, wrote \in BOOLEAN :
          ProcExit(j, code, wrote)

SpecFrames == Init /\ [][NextFrames]_vars

\* two frame-streaming jobs and the clock, no frames and no mux: the registry
\* and the sweep of every job-creation request
NextRegistry ==
    \/ \E j \in RegistryJobIds, total \in {0, MaxFrames} :
          ffmpeg_export_compose(j, total, TRUE)
    \/ \E j \in RegistryJobIds : ffmpeg_export_audio(j)
    \/ \E j \in RegistryJobIds : ffmpeg_export_finalize(j)
    \/ \E j \in RegistryJobIds, o \in {"exit", "timeout"} : FinalizeResume(j, o)
    \/ \E j \in RegistryJobIds : ffmpeg_export_cancel(j)
    \/ \E j \in RegistryJobIds : ProcExit(j, 0, TRUE)
    \/ \E j \in RegistryJobIds : ffmpeg_export_direct(j, 0, FALSE)
    \/ Tick

SpecRegistry == Init /\ [][NextRegistry]_vars

\* one frame-streaming job, one payload value and the clock: every request
\* of the interface, with the sweeps of the creation requests
NextEntries ==
    \/ \E j \in JobIds, total \in {0, MaxFrames} : ffmpeg_export_compose(j, total, TRUE)
    \/ \E j \in JobIds, idx \in FrameIndices, d \in FrameData({"a"}) :
          ffmpeg_export_frame(j, idx, d)
    \/ \E j \in JobIds, raise \in BOOLEAN : FrameResume(j, raise)
    \/ \E j \in JobIds : ffmpeg_export_audio(j)
    \/ \E j \in JobIds : ffmpeg_export_finalize(j)
    \/ \E j \in JobIds, o \in {"exit", "timeout"} : FinalizeResume(j, o)
    \/ \E j \in JobIds : FinalizeMux(j, "ok")
    \/ \E j \in JobIds : ffmpeg_export_progress(j)
    \/ \E j \in JobIds : ffmpeg_export_cancel(j)
    \/ \E j \in JobIds : ffmpeg_export_download(j)
    \/ \E j \in JobIds, code \in {0, 1} : ProcExit(j, code, code = 0)
    \/ Tick

SpecEntries == Init /\ [][NextEntries]_vars

\* one frame-streaming job without frames: the progress reader and the
\* requests that run beside it
NextReader ==
    \/ \E j \in JobIds : ffmpeg_export_compose(j, MaxFrames, TRUE)
    \/ \E j \in JobIds, field \in FpsFields : ReaderLine(j, field)
    \/ \E j \in JobIds : ReaderEOF(j)
    \/ \E j \in JobIds : ReaderCollide(j)
    \/ \E j \in JobIds : ffmpeg_export_finalize(j)
    \/ \E j \in JobIds, o \in {"exit", "timeout", "raise"} : FinalizeResume(j, o)
    \/ \E j \in JobIds : ffmpeg_export_progress(j)
    \/ \E j \in JobIds : ffmpeg_export_cancel(j)
    \/ \E j \in JobIds, code \in {0, 1} : ProcExit(j, code, code = 0)

SpecReader == Init /\ [][NextReader]_vars

ValidFrame == [b64 |-> "valid", len |-> FrameWidth * FrameHeight * BytesPerPixel, tag |-> "a"]

\* two frame-streaming jobs side by side, well-formed frames only: job 1 with
\* every request of the frame path, job 2 buffering frames ahead of its next
\* index, then cancelled
NextPair ==
    \/ \E j \in RegistryJobIds : ffmpeg_export_compose(j, MaxFrames, TRUE)
    \/ \E idx \in FrameIndices : ffmpeg_export_frame(1, idx, ValidFrame)
    \/ \E idx \in FrameIndices \ {0} : ffmpeg_export_frame(2, idx, ValidFrame)
    \/ \E raise \in BOOLEAN : FrameResume(1, raise)
    \/ ffmpeg_export_audio(1)
    \/ ffmpeg_export_finalize(1)
    \/ \E o \in {"exit", "timeout"} : FinalizeResume(1, o)
    \/ \E j \in RegistryJobIds : ffmpeg_export_cancel(j)
    \/ \E code \in {0, 1} : ProcExit(1, code, code = 0)

SpecPair == Init /\ [][NextPair]_vars
----------------------------------------------------------------------------
(* Properties *)

Written(j) == jobs[j].process.input

FrameStreaming(j) == j \in DOMAIN jobs /\ pc[j].direct = "none"

\* the indices 0..n-1, each submitted exactly once and every call returned success
PermutationDone(j, n) ==
    /\ pc[j].frame = "idle"
    /\ jobs[j].frames_received = n
    /\ ghost[j].ok = n
    /\ DOMAIN ghost[j].sent = 0..(n - 1)

\* C1: when the indices 0..N-1 have been submitted one call at a time, once
\* each and in any order of arrival, and every call returned success, the
\* encoder input holds exactly the payloads of frame 0, frame 1, ..., frame N-1
\* in that order.
C1_PermutationWrittenInOrder ==
    \A j \in DOMAIN jobs : \A n \in 0..MaxCalls :
        (FrameStreaming(j) /\ PermutationDone(j, n))
        => Written(j) = [i \in 1..n |-> [idx |-> i - 1, data |-> ghost[j].sent[i - 1]]]

C1_Witness ==
    \E j \in DOMAIN jobs :
        /\ PermutationDone(j, 3)
        /\ ghost[j].ooo
        /\ Len(Written(j)) = 3
        /\ Written(j)[1].data # Written(j)[2].data

\* C2: under every interleaving of submitFrame calls, finalize, cancel and the
\* encoder's exit, the i-th frame written to the encoder input is the frame of
\* index i-1: increasing, no index skipped, none written twice.
C2_WritesAreSequential ==
    \A j \in DOMAIN jobs :
        \A i \in 1..Len(Written(j)) : Written(j)[i].idx = i - 1

C2_Witness ==
    \E j \in DOMAIN jobs :
        /\ jobs[j].status = "finalizing"
        /\ ghost[j].ooo
        /\ Len(Written(j)) = 3

NotAccepted == {"Invalid jobId", "Job not accepting frames", "Missing frame data",
                "FFmpeg process not available", "Invalid base64 data",
                "Frame data size mismatch"}

\* C3: once the status of a job is done, error or cancelled, no step of any
\* handler changes it to another value.
C3_TerminalStatusNeverChanges ==
    [][\A j \in DOMAIN jobs :
          jobs[j].status \in Terminal => jobs'[j].status = jobs[j].status]_vars

\* C4: a submitFrame call that passes validation with an index below
\* next_frame_to_write writes nothing to the encoder input, leaves
\* framesReceived as it was and leaves the frame buffer as it was.
C4_ResubmitFlushedIsNoOp ==
    [][\A j \in JobIds, idx \in FrameIndices, d \in FrameData(Payloads) :
          (/\ FrameCheck(j, d) = "ok"
           /\ jobs[j].lock = "free"
           /\ idx < jobs[j].next_frame_to_write
           /\ ffmpeg_export_frame(j, idx, d))
          => /\ jobs'[j].process.input = jobs[j].process.input
             /\ jobs'[j].frames_received = jobs[j].frames_received
             /\ jobs'[j].frame_buffer = jobs[j].frame_buffer]_vars

\* C5: whenever no submitFrame call of a frame-streaming job is in flight, its
\* framesReceived equals the number of its submitFrame calls that returned
\* success (a call that returned an error has added nothing).
C5_ReceivedCountsSuccessfulCalls ==
    \A j \in DOMAIN jobs :
        (FrameStreaming(j) /\ pc[j].frame = "idle")
        => jobs[j].frames_received = ghost[j].ok

C6_MustReject(j, d) ==
    \/ j \notin compose_jobs
    \/ jobs[j].status # "encoding"
    \/ d.len # jobs[j].width * jobs[j].height * 4
    \/ ~jobs[j].process.obj
    \/ jobs[j].process.stdin = "none"

\* C6: a submitFrame call on an unknown job, on a job whose status is not
\* encoding, with a payload whose length is not width*height*4, or on a job
\* without a process or without an input stream is rejected and changes neither
\* a job (framesReceived, buffer, next_frame_to_write, status, encoder input)
\* nor the registry nor the disk.
C6_RejectedFrameChangesNothing ==
    [][\/ last'.op # "frame"
       \/ /\ last'.result \in NotAccepted
          /\ UNCHANGED <<jobs, compose_jobs, files, pc, ghost>>
       \/ \A j \in JobIds, idx \in FrameIndices, d \in FrameData(Payloads) :
             ~(C6_MustReject(j, d) /\ ffmpeg_export_frame(j, idx, d))]_vars

C6_Witness ==
    /\ last.op = "frame"
    /\ last.result = "FFmpeg process not available"
    /\ last.job \in compose_jobs
    /\ jobs[last.job].status = "encoding"
    /\ jobs[last.job].process.obj
    /\ jobs[last.job].process.stdin = "none"

\* C7: a finalize call on a registered job whose status is not encoding is
\* rejected and changes nothing: status, buffer, next_frame_to_write, the
\* encoder input stream, the artifacts and the suspended handlers stay as they
\* were.
C7_RejectedFinalizeChangesNothing ==
    [][\A j \in JobIds :
          (/\ j \in compose_jobs
           /\ jobs[j].status # "encoding"
           /\ ffmpeg_export_finalize(j))
          => /\ last'.result = "Job not in encoding state"
             /\ UNCHANGED <<jobs, compose_jobs, files, pc, ghost>>]_vars

C7_Witness ==
    /\ last.op = "finalize"
    /\ last.result = "Job not in encoding state"
    /\ last.job \in compose_jobs
    /\ jobs[last.job].status = "finalizing"
    /\ pc[last.job].fin = "wait"
    /\ jobs[last.job].process.stdin = "closed"

\* C8: a finalize call that resumes from its wait and finds the encoder exited
\* with a non-zero code leaves the status error and a non-empty error message;
\* and a step of finalize sets the status to done only when the encoder has
\* exited with code zero.
C8_ExitCodeDecidesFinalize ==
    [][\A j \in DOMAIN jobs :
          /\ (/\ pc[j].fin = "wait"
              /\ jobs[j].process.exited
              /\ jobs[j].process.returncode # 0
              /\ FinalizeResume(j, "exit"))
             => (jobs'[j].status = "error" /\ jobs'[j].error # "")
          /\ (/\ last'.op = "finalize"
              /\ jobs[j].status # "done"
              /\ jobs'[j].status = "done")
             => (jobs[j].process.exited /\ jobs[j].process.returncode = 0)]_vars

C8_Witness ==
    /\ last.op = "finalize"
    /\ last.result = "error"
    /\ jobs[last.job].status = "error"
    /\ jobs[last.job].error = "exit"
    /\ jobs[last.job].process.returncode = 1

\* C9: once a cancel call on a job has returned, the status of the job reads
\* cancelled, every submitFrame call that starts is rejected and every finalize
\* call that starts is rejected.
C9_CancelledJobStaysCancelled ==
    [][\A j \in DOMAIN jobs :
          ghost[j].cancelled
          => /\ jobs[j].status = "cancelled"
             /\ \A idx \in FrameIndices, d \in FrameData(Payloads) :
                   ffmpeg_export_frame(j, idx, d) => last'.result \in NotAccepted
             /\ ffmpeg_export_finalize(j)
                   => last'.result \in {"Invalid jobId", "Job not in encoding state"}]_vars

\* C10: a cancel call on a registered job whose status is done, error or
\* cancelled returns success and leaves the status, the error message and the
\* artifacts on disk as they were.
C10_CancelOfTerminalJobIsNoOp ==
    [][\A j \in JobIds :
          (/\ j \in compose_jobs
           /\ jobs[j].status \in Terminal
           /\ ffmpeg_export_cancel(j))
          => /\ last'.result = "ok"
             /\ jobs'[j].status = jobs[j].status
             /\ jobs'[j].error = jobs[j].error
             /\ files' = files]_vars

\* C11: a cancel call on a registered job whose status is encoding or
\* finalizing asks the encoder to terminate if it has not exited yet, has set
\* the status to cancelled when it returns, and returns in that same step: no
\* coroutine position changes and the process has not been waited for.
C11_CancelTerminatesAndReturns ==
    [][\A j \in JobIds :
          (/\ last'.op = "cancel"
           /\ j \in compose_jobs
           /\ jobs[j].status \in {"encoding", "finalizing"}
           /\ ffmpeg_export_cancel(j))
          => /\ last'.result = "ok"
             /\ jobs'[j].status = "cancelled"
             /\ (jobs[j].process.obj /\ ~jobs[j].process.exited)
                   => jobs'[j].process = Terminate(jobs[j].process)
             /\ jobs'[j].process.exited = jobs[j].process.exited
             /\ pc' = pc]_vars

\* a job cancelled during the encoder wait of finalize, encoder still running
C11_Witness ==
    \E j \in DOMAIN jobs :
        /\ last = [op |-> "cancel", job |-> j, result |-> "ok"]
        /\ jobs[j].status = "cancelled"
        /\ pc[j].fin = "wait"
        /\ jobs[j].process.terminated = 1
        /\ ~jobs[j].process.exited

\* C12: when an audio artifact was supplied and the mux process exits with a
\* non-zero code, finalize ends with status done and returns success, and the
\* encoder's video-only file, where the encoder left one, has become the final
\* output artifact.
C12_MuxFailureFallsBack ==
    [][\A j \in JobIds, o \in {"fail", "fail_partial"} :
          (last'.op = "finalize" /\ FinalizeMux(j, o))
          => /\ jobs'[j].status = "done"
             /\ last'.result = "ok"
             /\ Exists(files, <<j, "video">>)
                   => /\ Exists(files', <<j, "output">>)
                      /\ files'[<<j, "output">>] = files[<<j, "video">>]
                      /\ ~Exists(files', <<j, "video">>)]_vars

\* finalize has ended after a failed mux and the output is the encoder's video
C12_Witness ==
    \E j \in DOMAIN jobs :
        /\ last = [op |-> "finalize", job |-> j, result |-> "ok"]
        /\ jobs[j].audio_path
        /\ pc[j].mux = "exited"
        /\ jobs[j].status = "done"
        /\ Exists(files, <<j, "output">>)
        /\ files[<<j, "output">>] = "encoded"

\* C13: whenever finalize ends with status done, no file is left at the
\* video-only path; without audio the encoder's file, where there was one, has
\* become the final output with its content unchanged; after a mux the file
\* was moved (fallback) or deleted (success).
C13_DoneLeavesNoVideoOnlyFile ==
    [][\A j \in JobIds :
          (/\ last'.op = "finalize"
           /\ last'.result = "ok"
           /\ \/ FinalizeResume(j, "exit")
              \/ \E o \in {"ok", "fail", "fail_partial"} : FinalizeMux(j, o))
          => /\ jobs'[j].status = "done"
             /\ ~Exists(files', <<j, "video">>)
             /\ (pc[j].fin = "wait" /\ Exists(files, <<j, "video">>))
                   => /\ Exists(files', <<j, "output">>)
                      /\ files'[<<j, "output">>] = files[<<j, "video">>]]_vars

\* finalize has ended after a successful mux: muxed output, no video-only file
C13_Witness ==
    \E j \in DOMAIN jobs :
        /\ last = [op |-> "finalize", job |-> j, result |-> "ok"]
        /\ jobs[j].status = "done"
        /\ pc[j].mux = "exited"
        /\ Exists(files, <<j, "output">>)
        /\ files[<<j, "output">>] = "muxed"
        /\ ~Exists(files, <<j, "video">>)

\* C14: when finalize reaches its size-reporting step (the encoder has exited
\* with code 0 and the mux, if any, has returned) and no file exists at the
\* final output path, the call reports an error and the job does not end in
\* status done.
C14_MissingOutputIsAnError ==
    [][\A j \in JobIds :
          (/\ last'.op = "finalize"
           /\ \/ FinalizeResume(j, "exit") /\ ~EncoderFailed(jobs[j].process)
                                            /\ pc'[j].fin = "idle"
              \/ \E o \in {"ok", "fail", "fail_partial"} : FinalizeMux(j, o)
           /\ ~Exists(files', <<j, "output">>))
          => /\ last'.result = "error"
             /\ jobs'[j].status # "done"]_vars

\* C15: when a bounded wait of finalize expires, on the encoder or on the mux
\* process, the process waited for has been asked to terminate and the job is
\* in status error with the timeout message when the call ends.
C15_TimeoutTerminatesAndFails ==
    [][\A j \in JobIds :
          /\ (last'.op = "finalize" /\ FinalizeResume(j, "timeout"))
                => /\ jobs'[j].process = Terminate(jobs[j].process)
                   /\ jobs'[j].status = "error"
                   /\ jobs'[j].error = "timeout"
          /\ (last'.op = "finalize" /\ FinalizeMux(j, "timeout"))
                => /\ pc'[j].mux = "terminated"
                   /\ jobs'[j].status = "error"
                   /\ jobs'[j].error = "timeout"]_vars

\* C16: a job in status finalizing has its finalize call still in progress
\* (suspended at one of the call's awaits, or waiting for job.lock): no
\* finalize call has returned or raised with the status still finalizing.
C16_FinalizeEndsTerminal ==
    \A j \in DOMAIN jobs :
        jobs[j].status = "finalizing" => (pc[j].fin \in {"wait", "mux"} \/ loop_blocked)

Live == {"encoding", "finalizing"}

Kinds == {"video", "audio", "output"}

\* the sweep at the start of a job-creation request
SweepStep ==
    /\ last'.op \in {"create", "direct"}
    /\ \/ \E k \in RegistryJobIds, total \in {0, MaxFrames} :
             ffmpeg_export_compose(k, total, TRUE)
       \/ \E k \in RegistryJobIds : ffmpeg_export_direct(k, 0, FALSE)

\* C17: the sweep of a job-creation request neither removes from the registry
\* a job whose status is encoding or finalizing nor deletes or changes a file
\* of such a job, however old the job is.
C17_SweepSparesLiveJobs ==
    [][\A j \in RegistryJobIds :
          (/\ SweepStep
           /\ j \in compose_jobs
           /\ jobs[j].status \in Live)
          => /\ j \in compose_jobs'
             /\ \A kind \in Kinds :
                   Exists(files, <<j, kind>>)
                   => /\ Exists(files', <<j, kind>>)
                      /\ files'[<<j, kind>>] = files[<<j, kind>>]]_vars

\* a job was created when another job, live and with an audio file, was older
\* than the window; that job is still registered and its file still exists
C17_Witness ==
    \E j, k \in compose_jobs :
        /\ jobs[j].status \in Live
        /\ jobs[k].created_at - jobs[j].created_at > COMPOSE_JOB_MAX_AGE
        /\ Exists(files, <<j, "audio">>)

\* C18: every job-creation request sweeps the registry: right after it the
\* registry holds no job that is both terminal and older than
\* COMPOSE_JOB_MAX_AGE seconds, and every terminal job that was not older than
\* that is still registered.
C18_SweepRemovesExactlyTheStale ==
    [][SweepStep
       => /\ \A j \in compose_jobs' :
                ~(/\ jobs'[j].status \in Terminal
                  /\ now' - jobs'[j].created_at > COMPOSE_JOB_MAX_AGE)
          /\ \A j \in compose_jobs :
                (/\ jobs[j].status \in Terminal
                 /\ now - jobs[j].created_at <= COMPOSE_JOB_MAX_AGE)
                => j \in compose_jobs']_vars

\* a job has just been created and a terminal job exactly as old as the
\* window is still registered
C18_Witness ==
    \E j, k \in compose_jobs :
        /\ last = [op |-> "create", job |-> k, result |-> "ok"]
        /\ jobs[j].status \in Terminal
        /\ jobs[k].created_at - jobs[j].created_at = COMPOSE_JOB_MAX_AGE

\* a terminal job older than the window has been removed by a sweep
C18_Removed ==
    \E j \in DOMAIN jobs \ compose_jobs :
        /\ jobs[j].status \in Terminal
        /\ now - jobs[j].created_at > COMPOSE_JOB_MAX_AGE

\* C19: right after a cancel call on a registered job has returned, and right
\* after a sweep has removed a job from the registry, none of the three
\* artifacts of the job (video-only file, audio file, final output) exists.
C19_CancelledOrReapedLeavesNoFile ==
    [][\A j \in RegistryJobIds :
          (\/ /\ last'.op = "cancel"
              /\ j \in compose_jobs
              /\ ffmpeg_export_cancel(j)
           \/ /\ SweepStep
              /\ j \in compose_jobs \ compose_jobs')
          => \A kind \in Kinds : ~Exists(files', <<j, kind>>)]_vars

\* C20: the progress value returned by queryProgress for a registered job,
\* min(frames_received / total_frames, 1.0), never exceeds 1.0, and over any
\* step that leaves the status of a job at encoding the value a queryProgress
\* call returns does not get smaller.
C20_ProgressBoundedAndMonotone ==
    [][\A j \in JobIds :
          /\ (/\ last'.op = "progress"
              /\ j \in compose_jobs
              /\ ffmpeg_export_progress(j))
                => /\ last'.progress = Progress(jobs[j])
                   /\ last'.progress.num <= last'.progress.den
          /\ (/\ j \in compose_jobs
              /\ jobs[j].status = "encoding"
              /\ jobs'[j].status = "encoding")
                => Progress(jobs'[j]).num * Progress(jobs[j]).den
                      >= Progress(jobs[j]).num * Progress(jobs'[j]).den]_vars

\* C21: the progress value queryProgress returns for a registered job, direct
\* exports included, lies within [0, 1]: it is never negative and never above 1.
C21_ProgressWithinUnitInterval ==
    (last.op = "progress" /\ last.result = "ok")
    => /\ 0 <= last.progress.num
       /\ last.progress.num <= last.progress.den

\* C22: queryProgress on a registered job changes neither the registry nor any
\* field of any job nor the disk nor a suspended handler, and the value it
\* returns is frames_received / total_frames when total_frames > 0 and
\* frames_received <= total_frames, 1 when frames_received > total_frames > 0,
\* and 0 when total_frames <= 0.
C22_ProgressIsPure ==
    [][\A j \in JobIds :
          (last'.op = "progress" /\ j \in compose_jobs /\ ffmpeg_export_progress(j))
          => /\ UNCHANGED <<jobs, compose_jobs, files, pc, now, loop_blocked>>
             /\ LET v == last'.progress
                    fr == jobs[j].frames_received
                    total == jobs[j].total_frames
                IN /\ v.den > 0
                   /\ (total > 0 /\ fr <= total) => v.num * total = fr * v.den
                   /\ (total > 0 /\ fr > total) => v.num = v.den
                   /\ total <= 0 => v.num = 0]_vars

\* queryProgress has answered 1.0 for a job with more frames counted than
\* total_frames
C22_Witness ==
    \E j \in compose_jobs :
        /\ last.op = "progress"
        /\ last.job = j
        /\ last.result = "ok"
        /\ jobs[j].frames_received > jobs[j].total_frames
        /\ jobs[j].total_frames > 0
        /\ last.progress.num = last.progress.den

\* C23: a create request for a frame-streaming job with totalFrames <= 0 is
\* rejected: it registers no job, constructs no job object and starts no
\* encoder; and every frame-streaming job there is has total_frames > 0, so
\* none with total_frames <= 0 can be finalized.
C23_NonPositiveTotalIsRejected ==
    [][/\ \A j \in JobIds, total \in {-1, 0}, ok \in BOOLEAN :
             (last'.op = "create" /\ ffmpeg_export_compose(j, total, ok))
             => /\ last'.result = "totalFrames must be > 0"
                /\ jobs' = jobs
                /\ pc' = pc
                /\ compose_jobs' \subseteq compose_jobs
       /\ \A j \in DOMAIN jobs' :
             pc'[j].direct = "none" => jobs'[j].total_frames > 0]_vars

\* a create with totalFrames <= 0 has been rejected while nothing is registered
C23_Witness ==
    /\ last = [op |-> "create", job |-> 0, result |-> "totalFrames must be > 0"]
    /\ compose_jobs = {}

\* the smallest index at or above n that is not a key of buf
RECURSIVE RunEnd(_, _)
RunEnd(buf, n) == IF n \in DOMAIN buf THEN RunEnd(buf, n + 1) ELSE n

\* the contiguous run of buf that starts at n, in increasing index order
Run(buf, n) ==
    [i \in 1..(RunEnd(buf, n) - n) |-> [idx |-> n + i - 1, data |-> buf[n + i - 1]]]

\* the job after the step is the entry e with exactly its run drained
Drained(j, e) ==
    LET end == RunEnd(e.buffer, e.next)
    IN /\ jobs'[j].next_frame_to_write = end
       /\ jobs'[j].process.input = e.written \o Run(e.buffer, e.next)
       /\ jobs'[j].frame_buffer =
             [k \in {x \in DOMAIN e.buffer : x < e.next \/ x >= end} |-> e.buffer[k]]

\* C24: when an accepted submitFrame call returns success, next_frame_to_write
\* is the smallest index at or above its value at the start of the call that
\* is not in the buffer (the new frame included), the frames of that contiguous
\* run have been appended to the encoder input in increasing index order, and
\* every other buffered frame, those beyond the first gap among them, is still
\* buffered.
C24_CallDrainsMaximalRun ==
    [][(last'.op = "frame" /\ last'.result = "ok")
       => \A j \in JobIds :
             /\ \A idx \in FrameIndices, d \in FrameData(Payloads) :
                   (pc[j].frame = "idle" /\ ffmpeg_export_frame(j, idx, d))
                   => Drained(j, CallEntry(jobs[j], idx, d.tag))
             /\ (pc[j].frame = "drain" /\ FrameResume(j, FALSE))
                   => Drained(j, ghost[j].call)]_vars

\* a call that found frame 2 buffered when it stored frame 1 has written frame 1
\* and is now writing frame 2
C24_Witness ==
    \E j \in DOMAIN jobs :
        /\ pc[j].frame = "drain"
        /\ ghost[j].call.active
        /\ ghost[j].call.next = 1
        /\ 2 \in DOMAIN ghost[j].call.buffer
        /\ jobs[j].next_frame_to_write = 2
        /\ Len(jobs[j].process.input) = 3

\* C25: an accepted submitFrame call for an index above next_frame_to_write
\* that is still in the buffer replaces the buffered payload by the new one and
\* leaves frames_received as it was.
C25_ResubmitBufferedReplaces ==
    [][last'.op = "frame"
       => \A j \in JobIds, idx \in FrameIndices, d \in FrameData(Payloads) :
             (/\ j \in compose_jobs
              /\ idx \in DOMAIN jobs[j].frame_buffer
              /\ idx > jobs[j].next_frame_to_write
              /\ FrameCheck(j, d) = "ok"
              /\ ~LockHeld(jobs[j])
              /\ ffmpeg_export_frame(j, idx, d))
             => /\ idx \in DOMAIN jobs'[j].frame_buffer
                /\ jobs'[j].frame_buffer[idx] = d.tag
                /\ jobs'[j].frames_received = jobs[j].frames_received]_vars

\* C26: for every frame-streaming job, every index below next_frame_to_write
\* has been written to the encoder input and is not a key of the frame buffer,
\* and every key of the frame buffer is at or above next_frame_to_write.
C26_BufferHoldsOnlyUnwritten ==
    \A j \in DOMAIN jobs :
        FrameStreaming(j)
        => /\ \A i \in 0..(jobs[j].next_frame_to_write - 1) :
                 /\ \E k \in 1..Len(Written(j)) : Written(j)[k].idx = i
                 /\ i \notin DOMAIN jobs[j].frame_buffer
           /\ \A k \in DOMAIN jobs[j].frame_buffer : k >= jobs[j].next_frame_to_write

\* the same invariant for the jobs that were never sent an index twice
C26_WithoutResubmission ==
    \A j \in DOMAIN jobs :
        (FrameStreaming(j) /\ jobs[j].frames_received = Cardinality(DOMAIN ghost[j].sent))
        => /\ \A i \in 0..(jobs[j].next_frame_to_write - 1) :
                 /\ \E k \in 1..Len(Written(j)) : Written(j)[k].idx = i
                 /\ i \notin DOMAIN jobs[j].frame_buffer
           /\ \A k \in DOMAIN jobs[j].frame_buffer : k >= jobs[j].next_frame_to_write

\* C27: the finalize call that passes its checks and takes job.lock closes the
\* encoder input in the same step as its flush, after it: when the stream is
\* closed the buffer does not contain next_frame_to_write, the flush has
\* written exactly the contiguous run, and from then on nothing is appended to
\* the encoder input.
C27_CloseFollowsFlush ==
    [][\A j \in JobIds :
          /\ (/\ last'.op = "finalize"
              /\ FinalizeCheck(j) = "ok"
              /\ ~LockHeld(jobs[j])
              /\ jobs[j].process.stdin = "pipe"
              /\ ffmpeg_export_finalize(j))
                => /\ jobs'[j].process.stdin = "closed"
                   /\ ~NextIsBuffered(jobs'[j])
                   /\ jobs'[j].next_frame_to_write
                         = RunEnd(jobs[j].frame_buffer, jobs[j].next_frame_to_write)
                   /\ Len(jobs'[j].process.input) - Len(jobs[j].process.input)
                         <= jobs'[j].next_frame_to_write - jobs[j].next_frame_to_write
          /\ (j \in DOMAIN jobs /\ jobs[j].process.stdin = "closed")
                => /\ jobs'[j].process.input = jobs[j].process.input
                   /\ jobs'[j].process.stdin = "closed"]_vars

\* finalize has closed the input of a job that has written a frame and still
\* holds a frame beyond a gap
C27_Witness ==
    \E j \in DOMAIN jobs :
        /\ jobs[j].status = "finalizing"
        /\ jobs[j].process.stdin = "closed"
        /\ Len(jobs[j].process.input) > 0
        /\ DOMAIN jobs[j].frame_buffer # {}
        /\ ~NextIsBuffered(jobs[j])

\* a finalize call never finds a frame to flush: outside a suspended
\* submitFrame call the buffer of an encoding job does not hold
\* next_frame_to_write
FlushFindsNothing ==
    \A j \in DOMAIN jobs :
        (jobs[j].status = "encoding" /\ ~LockHeld(jobs[j])) => ~NextIsBuffered(jobs[j])

C29_CriticalSectionIsExclusive ==
    [][\A j \in JobIds :
          /\ j \in DOMAIN ghost' => ghost'[j].inside <= 1
          /\ (/\ last'.op = "finalize"
              /\ last'.result \in {"suspended", "raised"}
              /\ ffmpeg_export_finalize(j))
                => ghost[j].inside = 0]_vars

\* a second submitFrame call has reached job.lock while the first is suspended
\* inside, and has not entered
C29_Witness ==
    \E j \in DOMAIN jobs :
        /\ last = [op |-> "frame", job |-> j, result |-> "blocked"]
        /\ pc[j].frame = "drain"
        /\ ghost[j].inside = 1

\* C30: no handler is ever stuck in the acquisition of a job lock whose holder
\* is a suspended submitFrame call: the event loop stays free to resume the
\* holder and to serve other requests.
C30_LockNeverBlocksTheLoop == ~loop_blocked

\* C31: whatever the interleaving of finalize calls on a job, at most one of
\* them passes the status check; the calls after it are rejected with the job
\* untouched, and stdin.close() is called at most once.
C31_FinalizeRunsAtMostOnce ==
    [][\A j \in JobIds :
          /\ j \in DOMAIN ghost'
                => ghost'[j].finalized <= 1 /\ ghost'[j].closes <= 1
          /\ (/\ last'.op = "finalize"
              /\ j \in DOMAIN ghost
              /\ ghost[j].finalized = 1
              /\ ffmpeg_export_finalize(j))
                => /\ last'.result \in {"Invalid jobId", "Job not in encoding state"}
                   /\ UNCHANGED <<jobs, files, pc, ghost>>]_vars

\* a second finalize call has been rejected while the first waits for the encoder
C31_Witness ==
    \E j \in DOMAIN jobs :
        /\ last = [op |-> "finalize", job |-> j, result |-> "Job not in encoding state"]
        /\ pc[j].fin = "wait"
        /\ jobs[j].status = "finalizing"
        /\ ghost[j].finalized = 1
        /\ ghost[j].closes = 1

\* C32: over the whole life of a job its encoder process is sent at most one
\* termination request, and none after it has exited, whatever the sequence of
\* finalize, cancel and sweeps.
C32_ProcessTornDownAtMostOnce ==
    \A j \in DOMAIN jobs : jobs[j].process.terminated <= 1

\* C33: the encoder process of every job in a terminal status has exited or
\* has been sent a termination request: neither a failed frame write, nor
\* finalize, nor cancel leaves a terminal job with a running encoder that
\* nobody asked to stop.
C33_TerminalJobHasNoRunningEncoder ==
    \A j \in DOMAIN jobs :
        (jobs[j].status \in Terminal /\ jobs[j].process.obj)
            => jobs[j].process.exited \/ jobs[j].process.terminated > 0

\* C34: the set of entries of the registry changes only in a creation
\* request, which adds at most the one new entry and removes expired terminal
\* jobs by its sweep; submitFrame, submitAudio, finalize, cancel, queryProgress,
\* download and the steps of the encoder and of the clock leave it as it is.
C34_RegistryChangesOnlyByCreateAndSweep ==
    [][\/ compose_jobs' = compose_jobs
       \/ /\ last'.op = "create"
          /\ \E j \in JobIds, total \in {0, MaxFrames} :
                ffmpeg_export_compose(j, total, TRUE)
          /\ Cardinality(compose_jobs' \ compose_jobs) <= 1
          /\ \A j \in compose_jobs \ compose_jobs' :
                /\ jobs[j].status \in Terminal
                /\ now - jobs[j].created_at > COMPOSE_JOB_MAX_AGE]_vars

\* a job was created, fed, cancelled and reaped; a later submitFrame for
\* it is rejected and the registry is still empty
C34_Witness ==
    \E j \in DOMAIN jobs :
        /\ j \notin compose_jobs
        /\ compose_jobs = {}
        /\ ghost[j].ok > 0
        /\ ghost[j].cancelled
        /\ last = [op |-> "frame", job |-> j, result |-> "Invalid jobId"]

\* the artifacts of one job
FilesOf(fs, j) == [p \in {q \in DOMAIN fs : q[1] = j} |-> fs[p]]

\* a step of a request addressed to job a
OpOn(a) ==
    \/ \E idx \in FrameIndices : ffmpeg_export_frame(a, idx, ValidFrame)
    \/ \E raise \in BOOLEAN : FrameResume(a, raise)
    \/ ffmpeg_export_audio(a)
    \/ ffmpeg_export_finalize(a)
    \/ \E o \in {"exit", "timeout"} : FinalizeResume(a, o)
    \/ ffmpeg_export_cancel(a)

\* the object, the artifacts and the suspended coroutines of job b are the same
\* before and after the step
SameJob(b) ==
    /\ jobs'[b] = jobs[b]
    /\ FilesOf(files', b) = FilesOf(files, b)
    /\ pc'[b] = pc[b]
    /\ ghost'[b] = ghost[b]
    /\ (b \in compose_jobs') = (b \in compose_jobs)

\* the part of C35 about the state of the other jobs alone
C35_StateOfOtherJobsUntouched ==
    [][\A b \in DOMAIN jobs : \A a \in RegistryJobIds \ {b} :
          SameJob(b) \/ ~OpOn(a)]_vars

\* C35: a request addressed to job a leaves the status, the frame count, the
\* buffer, next_frame_to_write, the error, the process and the artifacts of
\* every other job b as they are, and leaves b as able to be served as before,
\* so that what is observed of b does not depend on the requests made on a.
C35_OtherJobsUnaffected ==
    [][\A b \in DOMAIN jobs : \A a \in RegistryJobIds \ {b} :
          (SameJob(b) /\ loop_blocked' = loop_blocked) \/ ~OpOn(a)]_vars

\* the fps field of the line is missing, or is no number
FpsMalformed(field) == field \in {"absent", "empty", "word", "bytes"}

\* C36: a progress line whose fps field is missing or is not a valid number
\* leaves the throughput estimate of the job as it is and leaves the progress
\* reader reading, so that the well-formed lines after it still update the
\* estimate.
C36_MalformedFpsIsSkipped ==
    [][\A j \in JobIds, field \in FpsFields :
          (FpsMalformed(field) /\ ReaderLine(j, field))
             => /\ jobs'[j].encoder_fps = jobs[j].encoder_fps
                /\ pc'[j].reader = "reading"]_vars

\* C37: at most one activity waits to read from the progress stream of a
\* job's encoder: finalize never waits in communicate() while the progress
\* reader of the job is still reading, so the wait of finalize cannot fail
\* because of a second reader.
C37_OneReaderOfProgressStream ==
    \A j \in DOMAIN jobs :
        /\ ~(pc[j].fin = "wait" /\ pc[j].reader = "reading")
        /\ last # [op |-> "finalize", job |-> j, result |-> "raised"]

\* C38: when a frame-streaming job is done its frame buffer is empty and every
\* index accepted by submitFrame is among the frames written to the encoder
\* input: no accepted frame is left behind a missing index.
C38_DoneLeavesNoFrameUnwritten ==
    \A j \in DOMAIN jobs :
        (FrameStreaming(j) /\ jobs[j].status = "done")
            => /\ DOMAIN jobs[j].frame_buffer = {}
               /\ \A idx \in DOMAIN ghost[j].sent :
                     \E i \in 1..Len(Written(j)) : Written(j)[i].idx = idx

\* C39: whatever frame indices are submitted, a frame-streaming job never
\* writes more frames to its encoder input than its totalFrames:
\* next_frame_to_write <= total_frames in every state.
C39_WritesNeverExceedTotal ==
    \A j \in DOMAIN jobs :
        FrameStreaming(j)
            => /\ jobs[j].next_frame_to_write <= jobs[j].total_frames
               /\ Len(Written(j)) <= jobs[j].total_frames

====
